---- MODULE Spec2Model ----
(***************************************************************************)
(* Milestone-gated crowdfunding escrow (thegivehub/smartcontracts).        *)
(*                                                                         *)
(* Three Soroban contracts are modelled, each with its own persistent      *)
(* storage:                                                                *)
(*   - the Campaign Ledger      (contracts/campaign/src/lib.rs)            *)
(*   - the Verification Engine  (contracts/verification/src/lib.rs)        *)
(*   - the Donation Ledger      (contracts/donation/src/lib.rs)            *)
(*                                                                         *)
(* The Verification Engine and the Donation Ledger reach the Campaign      *)
(* Ledger through an address: the campaign_contract argument of            *)
(* configure_campaign and donate, and the campaign_contract a stored       *)
(* VerificationConfig names.  Two instances of the Campaign Ledger are     *)
(* therefore deployed, each with its own storage, and a call addresses     *)
(* either.                                                                 *)
(*                                                                         *)
(* Every entry point is one atomic action.  A contract function is a pure  *)
(* operator from the storage it reads to a result record holding the       *)
(* error ("ok" on success) and the storage it leaves; a panic leaves the   *)
(* storage as it was (the host rolls the whole invocation back).  The      *)
(* variable `last` is the observable outcome of the most recent call.      *)
(*                                                                         *)
(* Display-only fields of campaigns and donations (title, description,     *)
(* note) are left out.  Ledger                                             *)
(* timestamps are one opaque clock reading.  Amounts are i128 in the code; *)
(* the model keeps them far from the i128 limits, so they are plain        *)
(* integers here.                                                          *)
(*                                                                         *)
(* The Campaign record carries donation_contract, the field                *)
(* DonationContract::donate reads (donation/src/lib.rs:49); it is set by   *)
(* set_authorized_contracts, which the contracts' tests call and whose     *)
(* body is not among the sources: it is modelled from the specification.   *)
(***************************************************************************)
EXTENDS Integers, Sequences, FiniteSets, TLC

VARIABLES
    ledgers,     \* Campaign Ledger storage, one per deployed instance:
                 \*   contract address -> (campaign id -> Campaign)
    configs,     \* Verification Engine storage: ("cfg", campaign id) -> VerificationConfig
    milestones,  \* Verification Engine storage: campaign id -> Vec<Milestone>
    donations,   \* Donation Ledger storage:     campaign id -> Map<donor, Vec<Donation>>
    last         \* the most recent top-level call and its outcome

vars == <<ledgers, configs, milestones, donations, last>>

----------------------------------------------------------------------------
(* Bounds of the model *)

\* accumulators are kept within -MaxDeficit .. MaxTotal
MaxTotal == 3
MaxDeficit == 0
\* the same upper bound for the accumulators of the second Campaign Ledger instance
MaxOtherTotal == 1
\* campaign records stored, all Campaign Ledger instances together
MaxCampaigns == 1
\* milestones per campaign
MaxMilestones == 2
\* donation records per campaign, all donors together
MaxDonations == 3

CampaignIds == {"c1"}
\* accounts that sign calls as creator, owner, verifier or donor
Principals == {"alice", "bob"}
\* the accounts among them that owners appoint as verifier
Verifiers == {"bob"}
\* accounts that invoke the ledger's unauthenticated entry points directly
Invokers == {"anyone"}

\* amounts passed to the ledger's add_donation and mark_milestone_completed (i128,
\* taken as given: a negative amount is accepted)
Amounts == {-1, 1, 2}
\* amounts passed to donate (which rejects amount <= 0)
RequestAmounts == {0, 1, 2}
\* amounts passed to create_milestone (which rejects amount <= 0)
MilestoneAmounts == {0, 1, 2}
\* targets passed to initialize
Targets == {0, 2}
\* milestone indices passed to verify/complete (u32)
Indices == 0 .. MaxMilestones
\* verification documents passed to verify_milestone
DocSets == {<<"report.pdf">>}
\* descriptions given to milestones
Descriptions == {"phase"}

\* contract addresses: the Campaign Ledger and the Donation Ledger of the deployment,
\* and another contract, which is a second instance of the Campaign Ledger
CampaignAddr == "campaign_ledger"
DonationAddr == "donation_ledger"
OtherAddr == "other_contract"
\* the addresses at which a Campaign Ledger is deployed; the campaign_contract argument
\* of configure_campaign and donate is any of them
LedgerAddrs == {CampaignAddr, OtherAddr}

\* Option<T>
None == <<>>
Some(x) == <<x>>

\* what a creator passes to set_authorized_contracts as the campaign's donation contract
DonationContracts == {None, Some(DonationAddr), Some(OtherAddr)}

\* env.ledger().timestamp()
LedgerTimestamp == "now"

----------------------------------------------------------------------------
(* Persistent storage: a partial map from keys to values *)

Has(store, key) == key \in DOMAIN store

Put(store, key, value) ==
    [k \in DOMAIN store \cup {key} |-> IF k = key THEN value ELSE store[k]]

EmptyStore == [k \in {} |-> None]

\* the result of a contract call: error code, storage left behind, value returned
Result(err, store, value) == [err |-> err, store |-> store, value |-> value]

\* panic_with_error!: the storage is as before the call
Panic(err, store) == Result(err, store, None)

----------------------------------------------------------------------------
(* Campaign Ledger *)

CampaignStatus == {"Draft", "Active", "Funded", "Completed", "Cancelled"}

\* CampaignContract::initialize
initialize(store, creator, campaign_id, target_amount) ==
    IF target_amount <= 0
    THEN Panic("InvalidTarget", store)
    ELSE Result("ok",
                Put(store, campaign_id,
                    [target_amount |-> target_amount,
                     current_amount |-> 0,
                     released_amount |-> 0,
                     creator |-> creator,
                     status |-> "Draft",
                     donation_contract |-> None]),
                None)

\* CampaignContract::set_authorized_contracts (registers the donation component)
set_authorized_contracts(store, creator, campaign_id, donation_contract) ==
    IF ~Has(store, campaign_id)
    THEN Panic("CampaignNotFound", store)
    ELSE IF store[campaign_id].creator # creator
    THEN Panic("Unauthorized", store)
    ELSE Result("ok",
                Put(store, campaign_id,
                    [store[campaign_id] EXCEPT !.donation_contract = donation_contract]),
                None)

\* activate that also restarts a Cancelled campaign
activate_restart(store, creator, campaign_id) ==
    IF ~Has(store, campaign_id)
    THEN Panic("CampaignNotFound", store)
    ELSE IF store[campaign_id].creator # creator
    THEN Panic("Unauthorized", store)
    ELSE IF store[campaign_id].status \notin {"Draft", "Cancelled"}
    THEN Panic("NotDraft", store)
    ELSE Result("ok",
                Put(store, campaign_id, [store[campaign_id] EXCEPT !.status = "Active"]),
                None)

\* activate without the creator check
activate_nocreator(store, creator, campaign_id) ==
    IF ~Has(store, campaign_id)
    THEN Panic("CampaignNotFound", store)
    ELSE IF store[campaign_id].status # "Draft"
    THEN Panic("NotDraft", store)
    ELSE Result("ok",
                Put(store, campaign_id, [store[campaign_id] EXCEPT !.status = "Active"]),
                None)

\* CampaignContract::activate
activate(store, creator, campaign_id) ==
    IF ~Has(store, campaign_id)
    THEN Panic("CampaignNotFound", store)
    ELSE IF store[campaign_id].creator # creator
    THEN Panic("Unauthorized", store)
    ELSE IF store[campaign_id].status # "Draft"
    THEN Panic("NotDraft", store)
    ELSE Result("ok",
                Put(store, campaign_id, [store[campaign_id] EXCEPT !.status = "Active"]),
                None)

\* add_donation that stops accepting once the campaign is Funded
add_donation_capped(store, campaign_id, amount) ==
    IF ~Has(store, campaign_id)
    THEN Panic("CampaignNotFound", store)
    ELSE LET campaign == store[campaign_id]
             current == campaign.current_amount + amount
         IN IF campaign.status # "Active"
            THEN Panic("NotActive", store)
            ELSE Result("ok",
                        Put(store, campaign_id,
                            [campaign EXCEPT
                                !.current_amount = current,
                                !.status = IF current >= campaign.target_amount
                                           THEN "Funded"
                                           ELSE campaign.status]),
                        None)

\* add_donation that needs the target to be exceeded
add_donation_strict(store, campaign_id, amount) ==
    IF ~Has(store, campaign_id)
    THEN Panic("CampaignNotFound", store)
    ELSE LET campaign == store[campaign_id]
             current == campaign.current_amount + amount
         IN IF campaign.status # "Active" /\ campaign.status # "Funded"
            THEN Panic("NotActive", store)
            ELSE Result("ok",
                        Put(store, campaign_id,
                            [campaign EXCEPT
                                !.current_amount = current,
                                !.status = IF current > campaign.target_amount
                                              /\ campaign.status = "Active"
                                           THEN "Funded"
                                           ELSE campaign.status]),
                        None)

\* CampaignContract::add_donation
add_donation(store, campaign_id, amount) ==
    IF ~Has(store, campaign_id)
    THEN Panic("CampaignNotFound", store)
    ELSE LET campaign == store[campaign_id]
             current == campaign.current_amount + amount
         IN IF campaign.status # "Active" /\ campaign.status # "Funded"
            THEN Panic("NotActive", store)
            ELSE Result("ok",
                        Put(store, campaign_id,
                            [campaign EXCEPT
                                !.current_amount = current,
                                !.status = IF current >= campaign.target_amount
                                              /\ campaign.status = "Active"
                                           THEN "Funded"
                                           ELSE campaign.status]),
                        None)

\* mark_milestone_completed with the availability check off by one
mark_milestone_completed_lax(store, campaign_id, amount) ==
    IF ~Has(store, campaign_id)
    THEN Panic("CampaignNotFound", store)
    ELSE LET campaign == store[campaign_id]
             available == campaign.current_amount - campaign.released_amount
             released == campaign.released_amount + amount
         IN IF available + 1 < amount
            THEN Panic("InsufficientFunds", store)
            ELSE Result("ok",
                        Put(store, campaign_id,
                            [campaign EXCEPT
                                !.released_amount = released,
                                !.status = IF released >= campaign.target_amount
                                           THEN "Completed"
                                           ELSE campaign.status]),
                        None)

\* CampaignContract::mark_milestone_completed
mark_milestone_completed(store, campaign_id, amount) ==
    IF ~Has(store, campaign_id)
    THEN Panic("CampaignNotFound", store)
    ELSE LET campaign == store[campaign_id]
             available == campaign.current_amount - campaign.released_amount
             released == campaign.released_amount + amount
         IN IF available < amount
            THEN Panic("InsufficientFunds", store)
            ELSE Result("ok",
                        Put(store, campaign_id,
                            [campaign EXCEPT
                                !.released_amount = released,
                                !.status = IF released >= campaign.target_amount
                                           THEN "Completed"
                                           ELSE campaign.status]),
                        None)

\* CampaignContract::cancel
cancel(store, creator, campaign_id) ==
    IF ~Has(store, campaign_id)
    THEN Panic("CampaignNotFound", store)
    ELSE IF store[campaign_id].creator # creator
    THEN Panic("Unauthorized", store)
    ELSE Result("ok",
                Put(store, campaign_id, [store[campaign_id] EXCEPT !.status = "Cancelled"]),
                None)

\* CampaignContract::get
get(store, campaign_id) ==
    IF ~Has(store, campaign_id)
    THEN Panic("CampaignNotFound", store)
    ELSE Result("ok", store, store[campaign_id])

\* CampaignContract::creator
creator_of(store, campaign_id) ==
    IF ~Has(store, campaign_id)
    THEN Panic("CampaignNotFound", store)
    ELSE Result("ok", store, store[campaign_id].creator)

\* CampaignContract::is_active
is_active(store, campaign_id) ==
    IF ~Has(store, campaign_id)
    THEN Panic("CampaignNotFound", store)
    ELSE Result("ok", store, store[campaign_id].status \in {"Active", "Funded"})

\* CampaignContract::available_funds
available_funds(store, campaign_id) ==
    IF ~Has(store, campaign_id)
    THEN Panic("CampaignNotFound", store)
    ELSE Result("ok", store,
                store[campaign_id].current_amount - store[campaign_id].released_amount)

\* the accumulators of every campaign stay within the model's bounds
WithinBounds(store, max_total) ==
    \A id \in DOMAIN store :
        /\ store[id].current_amount \in -MaxDeficit .. max_total
        /\ store[id].released_amount \in -MaxDeficit .. max_total

----------------------------------------------------------------------------
(* Verification Engine *)

MilestoneStatus == {"Pending", "Verified", "Completed", "Failed"}

\* the storage a Verification Engine call can touch: its own configs and milestones, and
\* the storage of the Campaign Ledger instances (camps: contract address -> storage)
VResult(err, camps, cfgs, ms) ==
    [err |-> err, ledgers |-> camps, configs |-> cfgs, milestones |-> ms]

\* Vec::get(index) on the stored milestone list (index is 0-based)
MilestoneAt(ms, campaign_id, index) == ms[campaign_id][index + 1]

HasMilestone(ms, campaign_id, index) ==
    Has(ms, campaign_id) /\ index + 1 \in DOMAIN ms[campaign_id]

\* Vec::set(index, milestone) followed by storage set
SetMilestone(ms, campaign_id, index, milestone) ==
    Put(ms, campaign_id, [ms[campaign_id] EXCEPT ![index + 1] = milestone])

\* VerificationContract::get_milestones, counted
MilestoneCount(ms, campaign_id) ==
    IF Has(ms, campaign_id) THEN Len(ms[campaign_id]) ELSE 0

\* VerificationContract::configure_campaign
configure_campaign(camps, cfgs, ms, owner, campaign_contract, campaign_id, verifier) ==
    LET campaign_owner == creator_of(camps[campaign_contract], campaign_id)
    IN IF campaign_owner.err # "ok"
       THEN VResult(campaign_owner.err, camps, cfgs, ms)
       ELSE IF campaign_owner.value # owner
       THEN VResult("Unauthorized", camps, cfgs, ms)
       ELSE VResult("ok", camps,
                    Put(cfgs, campaign_id,
                        [campaign_contract |-> campaign_contract,
                         owner |-> owner,
                         verifier |-> verifier]),
                    ms)

\* create_milestone without the check of the amount
create_milestone_free(camps, cfgs, ms, owner, campaign_id, description, amount) ==
    IF ~Has(cfgs, campaign_id)
    THEN VResult("NotConfigured", camps, cfgs, ms)
    ELSE IF cfgs[campaign_id].owner # owner
    THEN VResult("Unauthorized", camps, cfgs, ms)
    ELSE LET milestone == [description |-> description,
                           amount |-> amount,
                           status |-> "Pending",
                           verification_docs |-> <<>>,
                           verified_by |-> None,
                           completed_at |-> None]
             stored == IF Has(ms, campaign_id) THEN ms[campaign_id] ELSE <<>>
         IN VResult("ok", camps, cfgs, Put(ms, campaign_id, Append(stored, milestone)))

\* VerificationContract::create_milestone
create_milestone(camps, cfgs, ms, owner, campaign_id, description, amount) ==
    IF amount <= 0
    THEN VResult("InvalidAmount", camps, cfgs, ms)
    ELSE IF ~Has(cfgs, campaign_id)
    THEN VResult("NotConfigured", camps, cfgs, ms)
    ELSE IF cfgs[campaign_id].owner # owner
    THEN VResult("Unauthorized", camps, cfgs, ms)
    ELSE LET milestone == [description |-> description,
                           amount |-> amount,
                           status |-> "Pending",
                           verification_docs |-> <<>>,
                           verified_by |-> None,
                           completed_at |-> None]
             stored == IF Has(ms, campaign_id) THEN ms[campaign_id] ELSE <<>>
         IN VResult("ok", camps, cfgs, Put(ms, campaign_id, Append(stored, milestone)))

\* verify_milestone without the verifier check
verify_milestone_anyone(camps, cfgs, ms, verifier, campaign_id, milestone_index, docs) ==
    IF ~Has(cfgs, campaign_id)
    THEN VResult("NotConfigured", camps, cfgs, ms)
    ELSE IF ~HasMilestone(ms, campaign_id, milestone_index)
    THEN VResult("MilestoneNotFound", camps, cfgs, ms)
    ELSE LET milestone == MilestoneAt(ms, campaign_id, milestone_index)
         IN IF milestone.status # "Pending"
            THEN VResult("MilestoneNotPending", camps, cfgs, ms)
            ELSE VResult("ok", camps, cfgs,
                         SetMilestone(ms, campaign_id, milestone_index,
                                      [milestone EXCEPT
                                          !.status = "Verified",
                                          !.verified_by = Some(verifier),
                                          !.verification_docs = docs]))

\* verify_milestone that verifies every Pending milestone up to the index
verify_milestone_upto(camps, cfgs, ms, verifier, campaign_id, milestone_index, docs) ==
    IF ~Has(cfgs, campaign_id)
    THEN VResult("NotConfigured", camps, cfgs, ms)
    ELSE IF cfgs[campaign_id].verifier # verifier
    THEN VResult("Unauthorized", camps, cfgs, ms)
    ELSE IF ~HasMilestone(ms, campaign_id, milestone_index)
    THEN VResult("MilestoneNotFound", camps, cfgs, ms)
    ELSE LET milestone == MilestoneAt(ms, campaign_id, milestone_index)
         IN IF milestone.status # "Pending"
            THEN VResult("MilestoneNotPending", camps, cfgs, ms)
            ELSE VResult("ok", camps, cfgs,
                         Put(ms, campaign_id,
                             [i \in DOMAIN ms[campaign_id] |->
                                 IF i <= milestone_index + 1
                                    /\ ms[campaign_id][i].status = "Pending"
                                 THEN [ms[campaign_id][i] EXCEPT
                                          !.status = "Verified",
                                          !.verified_by = Some(verifier),
                                          !.verification_docs = docs]
                                 ELSE ms[campaign_id][i]]))

\* VerificationContract::verify_milestone
verify_milestone(camps, cfgs, ms, verifier, campaign_id, milestone_index, docs) ==
    IF ~Has(cfgs, campaign_id)
    THEN VResult("NotConfigured", camps, cfgs, ms)
    ELSE IF cfgs[campaign_id].verifier # verifier
    THEN VResult("Unauthorized", camps, cfgs, ms)
    ELSE IF ~HasMilestone(ms, campaign_id, milestone_index)
    THEN VResult("MilestoneNotFound", camps, cfgs, ms)
    ELSE LET milestone == MilestoneAt(ms, campaign_id, milestone_index)
         IN IF milestone.status # "Pending"
            THEN VResult("MilestoneNotPending", camps, cfgs, ms)
            ELSE VResult("ok", camps, cfgs,
                         SetMilestone(ms, campaign_id, milestone_index,
                                      [milestone EXCEPT
                                          !.status = "Verified",
                                          !.verified_by = Some(verifier),
                                          !.verification_docs = docs]))

\* complete_milestone without the check that the milestone is Verified
complete_milestone_again(camps, cfgs, ms, verifier, campaign_id, milestone_index) ==
    IF ~Has(cfgs, campaign_id)
    THEN VResult("NotConfigured", camps, cfgs, ms)
    ELSE IF cfgs[campaign_id].verifier # verifier
    THEN VResult("Unauthorized", camps, cfgs, ms)
    ELSE IF ~HasMilestone(ms, campaign_id, milestone_index)
    THEN VResult("MilestoneNotFound", camps, cfgs, ms)
    ELSE LET milestone == MilestoneAt(ms, campaign_id, milestone_index)
             campaign_contract == cfgs[campaign_id].campaign_contract
             release == mark_milestone_completed(camps[campaign_contract],
                                                 campaign_id, milestone.amount)
         IN IF milestone.status = "Pending"
            THEN VResult("MilestoneNotVerified", camps, cfgs, ms)
            ELSE IF release.err # "ok"
            THEN VResult(release.err, camps, cfgs, ms)
            ELSE VResult("ok", [camps EXCEPT ![campaign_contract] = release.store], cfgs,
                         SetMilestone(ms, campaign_id, milestone_index,
                                      [milestone EXCEPT
                                          !.status = "Completed",
                                          !.completed_at = Some(LedgerTimestamp)]))

\* complete_milestone that ignores the outcome of the release
complete_milestone_eager(camps, cfgs, ms, verifier, campaign_id, milestone_index) ==
    IF ~Has(cfgs, campaign_id)
    THEN VResult("NotConfigured", camps, cfgs, ms)
    ELSE IF cfgs[campaign_id].verifier # verifier
    THEN VResult("Unauthorized", camps, cfgs, ms)
    ELSE IF ~HasMilestone(ms, campaign_id, milestone_index)
    THEN VResult("MilestoneNotFound", camps, cfgs, ms)
    ELSE LET milestone == MilestoneAt(ms, campaign_id, milestone_index)
             campaign_contract == cfgs[campaign_id].campaign_contract
             release == mark_milestone_completed(camps[campaign_contract],
                                                 campaign_id, milestone.amount)
         IN IF milestone.status # "Verified"
            THEN VResult("MilestoneNotVerified", camps, cfgs, ms)
            ELSE VResult(release.err,
                         [camps EXCEPT ![campaign_contract] = release.store], cfgs,
                         SetMilestone(ms, campaign_id, milestone_index,
                                      [milestone EXCEPT
                                          !.status = "Completed",
                                          !.completed_at = Some(LedgerTimestamp)]))

\* VerificationContract::complete_milestone
complete_milestone(camps, cfgs, ms, verifier, campaign_id, milestone_index) ==
    IF ~Has(cfgs, campaign_id)
    THEN VResult("NotConfigured", camps, cfgs, ms)
    ELSE IF cfgs[campaign_id].verifier # verifier
    THEN VResult("Unauthorized", camps, cfgs, ms)
    ELSE IF ~HasMilestone(ms, campaign_id, milestone_index)
    THEN VResult("MilestoneNotFound", camps, cfgs, ms)
    ELSE LET milestone == MilestoneAt(ms, campaign_id, milestone_index)
             campaign_contract == cfgs[campaign_id].campaign_contract
             release == mark_milestone_completed(camps[campaign_contract],
                                                 campaign_id, milestone.amount)
         IN IF milestone.status # "Verified"
            THEN VResult("MilestoneNotVerified", camps, cfgs, ms)
            ELSE IF release.err # "ok"
            THEN VResult(release.err, camps, cfgs, ms)
            ELSE VResult("ok", [camps EXCEPT ![campaign_contract] = release.store], cfgs,
                         SetMilestone(ms, campaign_id, milestone_index,
                                      [milestone EXCEPT
                                          !.status = "Completed",
                                          !.completed_at = Some(LedgerTimestamp)]))

----------------------------------------------------------------------------
(* Donation Ledger *)

\* the storage a Donation Ledger call can touch: its own log, and the storage of the
\* Campaign Ledger instances (camps: contract address -> storage)
DResult(err, camps, dons) == [err |-> err, ledgers |-> camps, donations |-> dons]

\* DonationContract::get_donations
get_donations(dons, campaign_id, donor) ==
    IF Has(dons, campaign_id) /\ Has(dons[campaign_id], donor)
    THEN dons[campaign_id][donor]
    ELSE <<>>

RECURSIVE SumAmounts(_)
SumAmounts(records) ==
    IF records = <<>> THEN 0 ELSE Head(records).amount + SumAmounts(Tail(records))

RECURSIVE SumOverDonors(_, _)
SumOverDonors(by_donor, donors) ==
    IF donors = {}
    THEN 0
    ELSE LET d == CHOOSE x \in donors : TRUE
         IN SumAmounts(by_donor[d]) + SumOverDonors(by_donor, donors \ {d})

\* DonationContract::get_total_donated
get_total_donated(dons, campaign_id) ==
    IF Has(dons, campaign_id)
    THEN SumOverDonors(dons[campaign_id], DOMAIN dons[campaign_id])
    ELSE 0

\* number of donation records stored for a campaign
DonationCount(dons, campaign_id) ==
    IF Has(dons, campaign_id)
    THEN LET by_donor == dons[campaign_id]
             RECURSIVE Count(_)
             Count(donors) ==
                 IF donors = {}
                 THEN 0
                 ELSE LET d == CHOOSE x \in donors : TRUE
                      IN Len(by_donor[d]) + Count(donors \ {d})
         IN Count(DOMAIN by_donor)
    ELSE 0

\* donate that looks at the campaign's status before the registered authority
donate_status_first(camps, dons, self, donor, campaign_contract, campaign_id, amount) ==
    IF amount <= 0
    THEN DResult("InvalidAmount", camps, dons)
    ELSE LET read == get(camps[campaign_contract], campaign_id)
         IN IF read.err # "ok"
            THEN DResult(read.err, camps, dons)
            ELSE IF read.value.status \notin {"Active", "Funded"}
            THEN DResult("CampaignInactive", camps, dons)
            ELSE IF read.value.donation_contract # Some(self)
            THEN DResult("Unauthorized", camps, dons)
            ELSE LET donation == [campaign_id |-> campaign_id,
                                  donor |-> donor,
                                  amount |-> amount,
                                  timestamp |-> LedgerTimestamp]
                     by_donor == IF Has(dons, campaign_id)
                                 THEN dons[campaign_id]
                                 ELSE EmptyStore
                     donor_donations == IF Has(by_donor, donor)
                                        THEN by_donor[donor]
                                        ELSE <<>>
                     stored == Put(dons, campaign_id,
                                   Put(by_donor, donor, Append(donor_donations, donation)))
                     credit == add_donation(camps[campaign_contract], campaign_id, amount)
                 IN IF credit.err # "ok"
                    THEN DResult(credit.err, camps, dons)
                    ELSE DResult("ok", [camps EXCEPT ![campaign_contract] = credit.store],
                                 stored)

\* donate that logs the donation without crediting the campaign
donate_nocredit(camps, dons, self, donor, campaign_contract, campaign_id, amount) ==
    IF amount <= 0
    THEN DResult("InvalidAmount", camps, dons)
    ELSE LET read == get(camps[campaign_contract], campaign_id)
         IN IF read.err # "ok"
            THEN DResult(read.err, camps, dons)
            ELSE IF read.value.donation_contract # Some(self)
            THEN DResult("Unauthorized", camps, dons)
            ELSE IF read.value.status \notin {"Active", "Funded"}
            THEN DResult("CampaignInactive", camps, dons)
            ELSE LET donation == [campaign_id |-> campaign_id,
                                  donor |-> donor,
                                  amount |-> amount,
                                  timestamp |-> LedgerTimestamp]
                     by_donor == IF Has(dons, campaign_id)
                                 THEN dons[campaign_id]
                                 ELSE EmptyStore
                     donor_donations == IF Has(by_donor, donor)
                                        THEN by_donor[donor]
                                        ELSE <<>>
                     stored == Put(dons, campaign_id,
                                   Put(by_donor, donor, Append(donor_donations, donation)))
                 IN DResult("ok", camps, stored)

\* donate that puts the new record in front of the donor's earlier ones
donate_latest_first(camps, dons, self, donor, campaign_contract, campaign_id, amount) ==
    IF amount <= 0
    THEN DResult("InvalidAmount", camps, dons)
    ELSE LET read == get(camps[campaign_contract], campaign_id)
         IN IF read.err # "ok"
            THEN DResult(read.err, camps, dons)
            ELSE IF read.value.donation_contract # Some(self)
            THEN DResult("Unauthorized", camps, dons)
            ELSE IF read.value.status \notin {"Active", "Funded"}
            THEN DResult("CampaignInactive", camps, dons)
            ELSE LET donation == [campaign_id |-> campaign_id,
                                  donor |-> donor,
                                  amount |-> amount,
                                  timestamp |-> LedgerTimestamp]
                     by_donor == IF Has(dons, campaign_id)
                                 THEN dons[campaign_id]
                                 ELSE EmptyStore
                     donor_donations == IF Has(by_donor, donor)
                                        THEN by_donor[donor]
                                        ELSE <<>>
                     stored == Put(dons, campaign_id,
                                   Put(by_donor, donor, <<donation>> \o donor_donations))
                     credit == add_donation(camps[campaign_contract], campaign_id, amount)
                 IN IF credit.err # "ok"
                    THEN DResult(credit.err, camps, dons)
                    ELSE DResult("ok", [camps EXCEPT ![campaign_contract] = credit.store],
                                 stored)

\* DonationContract::donate, called on the Donation Ledger instance `self`
donate(camps, dons, self, donor, campaign_contract, campaign_id, amount) ==
    IF amount <= 0
    THEN DResult("InvalidAmount", camps, dons)
    ELSE LET read == get(camps[campaign_contract], campaign_id)
         IN IF read.err # "ok"
            THEN DResult(read.err, camps, dons)
            ELSE IF read.value.donation_contract # Some(self)
            THEN DResult("Unauthorized", camps, dons)
            ELSE IF read.value.status \notin {"Active", "Funded"}
            THEN DResult("CampaignInactive", camps, dons)
            ELSE LET donation == [campaign_id |-> campaign_id,
                                  donor |-> donor,
                                  amount |-> amount,
                                  timestamp |-> LedgerTimestamp]
                     by_donor == IF Has(dons, campaign_id)
                                 THEN dons[campaign_id]
                                 ELSE EmptyStore
                     donor_donations == IF Has(by_donor, donor)
                                        THEN by_donor[donor]
                                        ELSE <<>>
                     stored == Put(dons, campaign_id,
                                   Put(by_donor, donor, Append(donor_donations, donation)))
                     credit == add_donation(camps[campaign_contract], campaign_id, amount)
                 IN IF credit.err # "ok"
                    THEN DResult(credit.err, camps, dons)
                    ELSE DResult("ok", [camps EXCEPT ![campaign_contract] = credit.store],
                                 stored)

----------------------------------------------------------------------------
(* The system: one action per entry point *)

\* the storage of the Campaign Ledger instance deployed at CampaignAddr
campaigns == ledgers[CampaignAddr]

\* the accumulators of every campaign of every instance stay within the model's bounds
AllWithinBounds(camps) ==
    /\ WithinBounds(camps[CampaignAddr], MaxTotal)
    /\ WithinBounds(camps[OtherAddr], MaxOtherTotal)

\* the number of campaign records the instances store
CampaignCount(camps) ==
    Cardinality(DOMAIN camps[CampaignAddr]) + Cardinality(DOMAIN camps[OtherAddr])

\* the record of a top-level call: who called what with which arguments, and how it
\* ended.  `ledger` is the Campaign Ledger instance the call was made on (the ledger's
\* own entry points) or was told to use (the campaign_contract argument of donate and
\* configure_campaign); "none" for the calls that are given no ledger address.
Call(op, caller, ledger, campaign_id, amount, index, err) ==
    [op |-> op, caller |-> caller, ledger |-> ledger, id |-> campaign_id,
     amount |-> amount, index |-> index, err |-> err]

Init ==
    /\ ledgers = [ledger \in LedgerAddrs |-> EmptyStore]
    /\ configs = EmptyStore
    /\ milestones = EmptyStore
    /\ donations = EmptyStore
    /\ last = Call("deploy", "none", "none", "none", 0, 0, "ok")

\* initialize invoked on the instance at `ledger`
Initialize(ledger) ==
    \E creator \in Principals, id \in CampaignIds, target \in Targets :
        LET r == initialize(ledgers[ledger], creator, id, target)
        IN /\ CampaignCount([ledgers EXCEPT ![ledger] = r.store]) <= MaxCampaigns
           /\ ledgers' = [ledgers EXCEPT ![ledger] = r.store]
           /\ last' = Call("initialize", creator, ledger, id, target, 0, r.err)
           /\ UNCHANGED <<configs, milestones, donations>>

SetAuthorizedContracts(ledger) ==
    \E creator \in Principals, id \in CampaignIds, donation_contract \in DonationContracts :
        LET r == set_authorized_contracts(ledgers[ledger], creator, id, donation_contract)
        IN /\ ledgers' = [ledgers EXCEPT ![ledger] = r.store]
           /\ last' = Call("set_authorized_contracts", creator, ledger, id, 0, 0, r.err)
           /\ UNCHANGED <<configs, milestones, donations>>

Activate(ledger) ==
    \E creator \in Principals, id \in CampaignIds :
        LET r == activate(ledgers[ledger], creator, id)
        IN /\ ledgers' = [ledgers EXCEPT ![ledger] = r.store]
           /\ last' = Call("activate", creator, ledger, id, 0, 0, r.err)
           /\ UNCHANGED <<configs, milestones, donations>>

\* add_donation invoked directly on the instance at `ledger`; the contract asks its
\* invoker for no authorization
AddDonation(ledger) ==
    \E invoker \in Invokers, id \in CampaignIds, amount \in Amounts :
        LET r == add_donation(ledgers[ledger], id, amount)
        IN /\ AllWithinBounds([ledgers EXCEPT ![ledger] = r.store])
           /\ ledgers' = [ledgers EXCEPT ![ledger] = r.store]
           /\ last' = Call("add_donation", invoker, ledger, id, amount, 0, r.err)
           /\ UNCHANGED <<configs, milestones, donations>>

\* mark_milestone_completed invoked directly on the instance at `ledger`; no
\* authorization is asked for either
MarkMilestoneCompleted(ledger) ==
    \E invoker \in Invokers, id \in CampaignIds, amount \in Amounts :
        LET r == mark_milestone_completed(ledgers[ledger], id, amount)
        IN /\ AllWithinBounds([ledgers EXCEPT ![ledger] = r.store])
           /\ ledgers' = [ledgers EXCEPT ![ledger] = r.store]
           /\ last' = Call("mark_milestone_completed", invoker, ledger, id, amount, 0, r.err)
           /\ UNCHANGED <<configs, milestones, donations>>

Cancel(ledger) ==
    \E creator \in Principals, id \in CampaignIds :
        LET r == cancel(ledgers[ledger], creator, id)
        IN /\ ledgers' = [ledgers EXCEPT ![ledger] = r.store]
           /\ last' = Call("cancel", creator, ledger, id, 0, 0, r.err)
           /\ UNCHANGED <<configs, milestones, donations>>

\* the caller names the Campaign Ledger instance whose `creator` is asked
ConfigureCampaign ==
    \E owner \in Principals, campaign_contract \in LedgerAddrs,
       id \in CampaignIds, verifier \in Verifiers :
        LET r == configure_campaign(ledgers, configs, milestones,
                                    owner, campaign_contract, id, verifier)
        IN /\ configs' = r.configs
           /\ last' = Call("configure_campaign", owner, campaign_contract, id, 0, 0, r.err)
           /\ UNCHANGED <<ledgers, milestones, donations>>

CreateMilestone ==
    \E owner \in Principals, id \in CampaignIds,
       description \in Descriptions, amount \in MilestoneAmounts :
        LET r == create_milestone(ledgers, configs, milestones,
                                  owner, id, description, amount)
        IN /\ MilestoneCount(r.milestones, id) <= MaxMilestones
           /\ milestones' = r.milestones
           /\ last' = Call("create_milestone", owner, "none", id, amount, 0, r.err)
           /\ UNCHANGED <<ledgers, configs, donations>>

VerifyMilestone ==
    \E verifier \in Principals, id \in CampaignIds, index \in Indices, docs \in DocSets :
        LET r == verify_milestone(ledgers, configs, milestones, verifier, id, index, docs)
        IN /\ milestones' = r.milestones
           /\ last' = Call("verify_milestone", verifier, "none", id, 0, index, r.err)
           /\ UNCHANGED <<ledgers, configs, donations>>

\* the release is booked on the Campaign Ledger instance the stored config names
CompleteMilestone ==
    \E verifier \in Principals, id \in CampaignIds, index \in Indices :
        LET r == complete_milestone(ledgers, configs, milestones, verifier, id, index)
        IN /\ AllWithinBounds(r.ledgers)
           /\ ledgers' = r.ledgers
           /\ milestones' = r.milestones
           /\ last' = Call("complete_milestone", verifier, "none", id, 0, index, r.err)
           /\ UNCHANGED <<configs, donations>>

\* the donor names the Campaign Ledger instance that is read and credited
Donate ==
    \E donor \in Principals, campaign_contract \in LedgerAddrs,
       id \in CampaignIds, amount \in RequestAmounts :
        LET r == donate(ledgers, donations, DonationAddr, donor, campaign_contract,
                        id, amount)
        IN /\ AllWithinBounds(r.ledgers)
           /\ DonationCount(r.donations, id) <= MaxDonations
           /\ ledgers' = r.ledgers
           /\ donations' = r.donations
           /\ last' = Call("donate", donor, campaign_contract, id, amount, 0, r.err)
           /\ UNCHANGED <<configs, milestones>>

Next ==
    \/ \E ledger \in LedgerAddrs : Initialize(ledger)
    \/ \E ledger \in LedgerAddrs : SetAuthorizedContracts(ledger)
    \/ \E ledger \in LedgerAddrs : Activate(ledger)
    \/ \E ledger \in LedgerAddrs : AddDonation(ledger)
    \/ \E ledger \in LedgerAddrs : MarkMilestoneCompleted(ledger)
    \/ \E ledger \in LedgerAddrs : Cancel(ledger)
    \/ ConfigureCampaign
    \/ CreateMilestone
    \/ VerifyMilestone
    \/ CompleteMilestone
    \/ Donate

Spec == Init /\ [][Next]_vars

(* The Campaign Ledger on its own: every entry point, on either instance,   *)
(* with every input Next draws.  The Donation Ledger and the Verification   *)
(* Engine write an instance only through add_donation and                   *)
(* mark_milestone_completed, which are open entry points here, so the       *)
(* ledger storage reachable under Spec is the one reachable under           *)
(* SpecLedger.                                                              *)
NextLedger ==
    \/ \E ledger \in LedgerAddrs : Initialize(ledger)
    \/ \E ledger \in LedgerAddrs : SetAuthorizedContracts(ledger)
    \/ \E ledger \in LedgerAddrs : Activate(ledger)
    \/ \E ledger \in LedgerAddrs : AddDonation(ledger)
    \/ \E ledger \in LedgerAddrs : MarkMilestoneCompleted(ledger)
    \/ \E ledger \in LedgerAddrs : Cancel(ledger)

SpecLedger == Init /\ [][NextLedger]_vars

(* The Donation Ledger with the Campaign Ledger instances: Next without the *)
(* Verification Engine, whose storage stays empty.  The engine writes a     *)
(* ledger only through mark_milestone_completed, an entry point kept here   *)
(* with every amount, so every ledger and donation storage reachable under  *)
(* Spec is reachable under SpecDonation.                                    *)
NextDonation ==
    \/ \E ledger \in LedgerAddrs : Initialize(ledger)
    \/ \E ledger \in LedgerAddrs : SetAuthorizedContracts(ledger)
    \/ \E ledger \in LedgerAddrs : Activate(ledger)
    \/ \E ledger \in LedgerAddrs : AddDonation(ledger)
    \/ \E ledger \in LedgerAddrs : MarkMilestoneCompleted(ledger)
    \/ \E ledger \in LedgerAddrs : Cancel(ledger)
    \/ Donate

SpecDonation == Init /\ [][NextDonation]_vars

(* The Verification Engine with the Campaign Ledger instances: Next without *)
(* the Donation Ledger, whose storage stays empty, and without              *)
(* set_authorized_contracts, which writes only the donation_contract field  *)
(* that no code of the engine or of the ledger reads.  Donate writes a      *)
(* ledger only through add_donation, an entry point kept here with every    *)
(* amount.                                                                  *)
NextVerification ==
    \/ \E ledger \in LedgerAddrs : Initialize(ledger)
    \/ \E ledger \in LedgerAddrs : Activate(ledger)
    \/ \E ledger \in LedgerAddrs : AddDonation(ledger)
    \/ \E ledger \in LedgerAddrs : MarkMilestoneCompleted(ledger)
    \/ \E ledger \in LedgerAddrs : Cancel(ledger)
    \/ ConfigureCampaign
    \/ CreateMilestone
    \/ VerifyMilestone
    \/ CompleteMilestone

SpecVerification == Init /\ [][NextVerification]_vars

----------------------------------------------------------------------------
(* Properties *)

\* the Campaign Ledger instance the campaign's stored config names
ConfiguredLedger(id) == configs[id].campaign_contract

\* a donation was credited to the campaign `id` of the Campaign Ledger at CampaignAddr
\* by the step: add_donation directly, or through a donate that named this ledger
CreditStep(id) ==
    /\ last'.op \in {"add_donation", "donate"}
    /\ last'.ledger = CampaignAddr
    /\ last'.id = id
    /\ last'.err = "ok"

\* funds of the campaign `id` of the Campaign Ledger at CampaignAddr were released by
\* the step: mark_milestone_completed directly, or through a complete_milestone
\* whose config names this ledger
ReleaseStep(id) ==
    /\ last'.id = id
    /\ last'.err = "ok"
    /\ \/ last'.op = "mark_milestone_completed" /\ last'.ledger = CampaignAddr
       \/ /\ last'.op = "complete_milestone"
          /\ Has(configs, id)
          /\ ConfiguredLedger(id) = CampaignAddr

RECURSIVE SumCompleted(_)
SumCompleted(list) ==
    IF list = <<>>
    THEN 0
    ELSE (IF Head(list).status = "Completed" THEN Head(list).amount ELSE 0)
         + SumCompleted(Tail(list))

\* the sum of the amounts of a campaign's Completed milestones
CompletedTotal(id) ==
    IF Has(milestones, id) THEN SumCompleted(milestones[id]) ELSE 0

(* C1: escrow safety.  For every campaign, after every call,               *)
(* 0 <= released_amount <= current_amount.                                  *)
C1_EscrowSafety ==
    \A id \in DOMAIN campaigns :
        /\ 0 <= campaigns[id].released_amount
        /\ campaigns[id].released_amount <= campaigns[id].current_amount

(* C2: cross-ledger accounting.  In every reachable state the ledger's     *)
(* released_amount of a campaign equals the sum of the amounts of that      *)
(* campaign's Completed milestones.                                         *)
C2_ReleasedEqualsCompletedMilestones ==
    \A id \in DOMAIN campaigns :
        campaigns[id].released_amount = CompletedTotal(id)

(* C3: mark_milestone_completed(id, amount) fails with InsufficientFunds   *)
(* whenever amount > current_amount - released_amount, and the campaign     *)
(* record is then unchanged.                                                *)
C3_ReleaseRejectsOverdraw ==
    [][\A id \in CampaignIds :
          (/\ last'.op = "mark_milestone_completed"
           /\ last'.ledger = CampaignAddr
           /\ last'.id = id
           /\ Has(campaigns, id)
           /\ last'.amount > campaigns[id].current_amount
                               - campaigns[id].released_amount)
          => (/\ last'.err = "InsufficientFunds"
              /\ campaigns' = campaigns)]_vars

\* a release of more than the available funds was just rejected
C3_Witness ==
    /\ last.op = "mark_milestone_completed"
    /\ last.ledger = CampaignAddr
    /\ last.err = "InsufficientFunds"
    /\ Has(campaigns, last.id)
    /\ campaigns[last.id].current_amount > 0
    /\ last.amount = available_funds(campaigns, last.id).value + 1

(* C4: complete_milestone by the configured verifier on a Verified          *)
(* milestone whose amount exceeds the available funds fails with            *)
(* InsufficientFunds and leaves the milestone (Verified, completed_at       *)
(* unset) and the campaign as they were; a milestone becomes Completed only *)
(* in a complete_milestone call whose release of the milestone's amount     *)
(* succeeded on the ledger.  The ledger is the Campaign Ledger instance the *)
(* campaign's config names: the funds are the campaign's available funds    *)
(* there, and the release is booked there and nowhere else.                 *)
C4_CompleteNeedsRelease ==
    [][\A id \in CampaignIds :
          /\ \A index \in Indices :
                (/\ last'.op = "complete_milestone"
                 /\ last'.id = id
                 /\ last'.index = index
                 /\ Has(configs, id)
                 /\ last'.caller = configs[id].verifier
                 /\ HasMilestone(milestones, id, index)
                 /\ MilestoneAt(milestones, id, index).status = "Verified"
                 /\ MilestoneAt(milestones, id, index).amount
                        > available_funds(ledgers[ConfiguredLedger(id)], id).value)
                => (/\ last'.err = "InsufficientFunds"
                    /\ milestones' = milestones
                    /\ MilestoneAt(milestones', id, index).status = "Verified"
                    /\ MilestoneAt(milestones', id, index).completed_at = None
                    /\ ledgers' = ledgers)
          /\ \A index \in Indices :
                (/\ HasMilestone(milestones', id, index)
                 /\ MilestoneAt(milestones', id, index).status = "Completed"
                 /\ ~(/\ HasMilestone(milestones, id, index)
                      /\ MilestoneAt(milestones, id, index).status = "Completed"))
                => (/\ last'.op = "complete_milestone"
                    /\ last'.id = id
                    /\ last'.index = index
                    /\ last'.err = "ok"
                    /\ MilestoneAt(milestones', id, index).amount
                           <= available_funds(ledgers[ConfiguredLedger(id)], id).value
                    /\ ledgers'[ConfiguredLedger(id)][id].released_amount
                           = ledgers[ConfiguredLedger(id)][id].released_amount
                             + MilestoneAt(milestones', id, index).amount
                    /\ \A ledger \in LedgerAddrs \ {ConfiguredLedger(id)} :
                           ledgers'[ledger] = ledgers[ledger])]_vars

\* the verifier's complete_milestone was just rejected for lack of funds on the
\* second Campaign Ledger instance, which the config names and which holds some funds
\* but fewer than the milestone's amount, and the milestone is still Verified
C4_Witness ==
    /\ last.op = "complete_milestone"
    /\ last.err = "InsufficientFunds"
    /\ last.caller = configs[last.id].verifier
    /\ ConfiguredLedger(last.id) = OtherAddr
    /\ MilestoneAt(milestones, last.id, last.index).status = "Verified"
    /\ MilestoneAt(milestones, last.id, last.index).completed_at = None
    /\ MilestoneAt(milestones, last.id, last.index).amount
           > available_funds(ledgers[OtherAddr], last.id).value
    /\ available_funds(ledgers[OtherAddr], last.id).value > 0
    /\ ~Has(campaigns, last.id)

(* C5: a campaign goes from Active to Funded in exactly the donation step   *)
(* in which current_amount becomes >= target_amount while the status was    *)
(* Active, so an Active campaign always has current_amount < target_amount; *)
(* a later donation to a Funded campaign leaves it Funded.                  *)
C5_FundedExactlyAtTarget ==
    [][\A id \in CampaignIds :
          /\ (Has(campaigns', id) /\ campaigns'[id].status = "Active")
             => campaigns'[id].current_amount < campaigns'[id].target_amount
          /\ (Has(campaigns, id) /\ campaigns[id].status = "Active" /\ CreditStep(id))
             => (campaigns'[id].status = "Funded"
                 <=> campaigns'[id].current_amount >= campaigns'[id].target_amount)
          /\ (/\ Has(campaigns, id)
              /\ campaigns[id].status = "Active"
              /\ campaigns'[id].status = "Funded")
             => (/\ CreditStep(id)
                 /\ campaigns[id].current_amount < campaigns[id].target_amount
                 /\ campaigns'[id].current_amount >= campaigns'[id].target_amount)
          /\ (Has(campaigns, id) /\ campaigns[id].status = "Funded" /\ CreditStep(id))
             => campaigns'[id].status = "Funded"]_vars

\* a donation was just credited to a campaign that was already Funded, and the
\* campaign is still Funded, beyond its target
C5_Witness ==
    /\ last.op = "add_donation"
    /\ last.ledger = CampaignAddr
    /\ last.err = "ok"
    /\ Has(campaigns, last.id)
    /\ campaigns[last.id].status = "Funded"
    /\ campaigns[last.id].current_amount > campaigns[last.id].target_amount
    /\ campaigns[last.id].current_amount - last.amount >= campaigns[last.id].target_amount

(* C6: a campaign becomes Completed in exactly the release step in which    *)
(* released_amount first becomes >= target_amount; no other operation sets  *)
(* the status to Completed; and no campaign has released_amount >=          *)
(* target_amount with a status other than Completed.                        *)
C6_CompletedExactlyAtTarget ==
    [][\A id \in CampaignIds :
          /\ (/\ Has(campaigns', id)
              /\ campaigns'[id].status = "Completed"
              /\ ~(Has(campaigns, id) /\ campaigns[id].status = "Completed"))
             => (/\ ReleaseStep(id)
                 /\ campaigns[id].released_amount < campaigns[id].target_amount
                 /\ campaigns'[id].released_amount >= campaigns'[id].target_amount)
          /\ (/\ Has(campaigns', id)
              /\ campaigns'[id].released_amount >= campaigns'[id].target_amount)
             => campaigns'[id].status = "Completed"]_vars

\* the status changes the state machine allows
AllowedTransitions ==
    {<<"Draft", "Active">>, <<"Active", "Funded">>, <<"Funded", "Completed">>,
     <<"Draft", "Cancelled">>, <<"Active", "Cancelled">>, <<"Funded", "Cancelled">>}

(* C7: every change of a campaign's status is Draft->Active,                *)
(* Active->Funded, Funded->Completed or Draft/Active/Funded->Cancelled;     *)
(* Completed and Cancelled are terminal.  (A repeated initialize replaces   *)
(* the record and is C8's matter: its steps are not judged here.)           *)
C7_StatusStateMachine ==
    [][\A id \in CampaignIds :
          (/\ Has(campaigns, id)
           /\ ~(last'.op = "initialize" /\ last'.ledger = CampaignAddr)
           /\ campaigns'[id].status # campaigns[id].status)
          => <<campaigns[id].status, campaigns'[id].status>> \in AllowedTransitions]_vars

(* C8: initialize fails with InvalidTarget when target_amount <= 0 and      *)
(* fails when the campaign id already exists, leaving storage unchanged in  *)
(* both cases; on success the record is Draft with zero accumulators.       *)
C8_InitializeChecksBeforeWrite ==
    [][\A id \in CampaignIds :
          (last'.op = "initialize" /\ last'.ledger = CampaignAddr /\ last'.id = id)
          => /\ last'.amount <= 0
                => (last'.err = "InvalidTarget" /\ campaigns' = campaigns)
             /\ Has(campaigns, id)
                => (last'.err # "ok" /\ campaigns' = campaigns)
             /\ last'.err = "ok"
                => (/\ campaigns'[id].status = "Draft"
                    /\ campaigns'[id].current_amount = 0
                    /\ campaigns'[id].released_amount = 0
                    /\ campaigns'[id].creator = last'.caller
                    /\ campaigns'[id].target_amount = last'.amount)]_vars

(* C9: a campaign's current_amount is increased only by a record_donation   *)
(* call that holds the delegated authorization for that (id, amount) pair   *)
(* or comes from the campaign's registered donation component, i.e. by the  *)
(* call donate makes once it has found itself registered; a call by any     *)
(* other caller does not credit the campaign.                               *)
C9_OnlyAuthorizedCredit ==
    [][\A id \in CampaignIds :
          (/\ Has(campaigns, id)
           /\ campaigns'[id].current_amount > campaigns[id].current_amount)
          => (/\ last'.op = "donate"
              /\ last'.ledger = CampaignAddr
              /\ last'.id = id
              /\ campaigns[id].donation_contract = Some(DonationAddr)
              /\ campaigns'[id].current_amount
                     = campaigns[id].current_amount + last'.amount)]_vars

(* C10: activate and cancel fail with Unauthorized whenever the caller is   *)
(* not the campaign's stored creator, whatever the status, and leave the    *)
(* campaign record unchanged.                                               *)
C10_CreatorOnly ==
    [][\A id \in CampaignIds :
          (/\ last'.op \in {"activate", "cancel"}
           /\ last'.ledger = CampaignAddr
           /\ last'.id = id
           /\ Has(campaigns, id)
           /\ last'.caller # campaigns[id].creator)
          => (/\ last'.err = "Unauthorized"
              /\ campaigns' = campaigns)]_vars

\* somebody other than the creator just tried to activate a campaign that is past Draft
C10_Witness ==
    /\ last.op = "activate"
    /\ last.ledger = CampaignAddr
    /\ last.err = "Unauthorized"
    /\ Has(campaigns, last.id)
    /\ last.caller # campaigns[last.id].creator
    /\ campaigns[last.id].status = "Funded"

(* C11: verify_milestone and complete_milestone fail with Unauthorized      *)
(* whenever the caller is not the verifier configured for the campaign      *)
(* (the campaign owner included), and leave every milestone and the         *)
(* campaign's released_amount unchanged (no Campaign Ledger instance is     *)
(* written).                                                                *)
C11_VerifierOnly ==
    [][\A id \in CampaignIds :
          (/\ last'.op \in {"verify_milestone", "complete_milestone"}
           /\ last'.id = id
           /\ Has(configs, id)
           /\ last'.caller # configs[id].verifier)
          => (/\ last'.err = "Unauthorized"
              /\ milestones' = milestones
              /\ ledgers' = ledgers)]_vars

\* the campaign owner, who is not the verifier, just tried to complete a Verified
\* milestone that the campaign could pay
C11_Witness ==
    /\ last.op = "complete_milestone"
    /\ last.err = "Unauthorized"
    /\ Has(configs, last.id)
    /\ last.caller = configs[last.id].owner
    /\ last.caller # configs[last.id].verifier
    /\ HasMilestone(milestones, last.id, last.index)
    /\ MilestoneAt(milestones, last.id, last.index).status = "Verified"
    /\ MilestoneAt(milestones, last.id, last.index).amount
           <= available_funds(ledgers[ConfiguredLedger(last.id)], last.id).value

\* the call was made by the verifier configured for the campaign, on a stored milestone
VerifierCallOn(op, id, index) ==
    /\ last'.op = op
    /\ last'.id = id
    /\ last'.index = index
    /\ Has(configs, id)
    /\ last'.caller = configs[id].verifier
    /\ HasMilestone(milestones, id, index)

(* C12: a milestone's status only ever changes Pending->Verified, by        *)
(* verify_milestone, and Verified->Completed, by complete_milestone;        *)
(* verify_milestone fails with MilestoneNotPending unless the status is     *)
(* Pending and complete_milestone fails with MilestoneNotVerified unless it *)
(* is Verified; so a milestone triggers at most one release of its amount,  *)
(* and a repeated complete_milestone on a Completed milestone releases      *)
(* nothing.  (No Campaign Ledger instance is written by a rejected call,    *)
(* and one is written by complete_milestone only as the milestone goes from *)
(* Verified to Completed.)                                                  *)
C12_MilestoneLifecycle ==
    [][\A id \in CampaignIds : \A index \in Indices :
          /\ (/\ HasMilestone(milestones, id, index)
              /\ MilestoneAt(milestones', id, index).status
                     # MilestoneAt(milestones, id, index).status)
             => \/ /\ MilestoneAt(milestones, id, index).status = "Pending"
                   /\ MilestoneAt(milestones', id, index).status = "Verified"
                   /\ last'.op = "verify_milestone"
                   /\ last'.index = index
                   /\ last'.err = "ok"
                \/ /\ MilestoneAt(milestones, id, index).status = "Verified"
                   /\ MilestoneAt(milestones', id, index).status = "Completed"
                   /\ last'.op = "complete_milestone"
                   /\ last'.index = index
                   /\ last'.err = "ok"
          /\ (/\ VerifierCallOn("verify_milestone", id, index)
              /\ MilestoneAt(milestones, id, index).status # "Pending")
             => (/\ last'.err = "MilestoneNotPending"
                 /\ milestones' = milestones
                 /\ ledgers' = ledgers)
          /\ (/\ VerifierCallOn("complete_milestone", id, index)
              /\ MilestoneAt(milestones, id, index).status # "Verified")
             => (/\ last'.err = "MilestoneNotVerified"
                 /\ milestones' = milestones
                 /\ ledgers' = ledgers)
          /\ (/\ last'.op = "complete_milestone"
              /\ last'.id = id
              /\ last'.index = index
              /\ ledgers' # ledgers)
             => (/\ HasMilestone(milestones, id, index)
                 /\ MilestoneAt(milestones, id, index).status = "Verified"
                 /\ MilestoneAt(milestones', id, index).status = "Completed")]_vars

\* the verifier just repeated complete_milestone on a Completed milestone whose amount
\* the campaign could have paid once more
C12_Witness ==
    /\ last.op = "complete_milestone"
    /\ last.err = "MilestoneNotVerified"
    /\ Has(configs, last.id)
    /\ last.caller = configs[last.id].verifier
    /\ HasMilestone(milestones, last.id, last.index)
    /\ MilestoneAt(milestones, last.id, last.index).status = "Completed"
    /\ MilestoneAt(milestones, last.id, last.index).amount
           <= available_funds(ledgers[ConfiguredLedger(last.id)], last.id).value

(* C13: add_donation on a stored campaign fails with NotActive, leaving the *)
(* campaign unchanged, when the status is Draft, Completed or Cancelled;    *)
(* when the status is Active or Funded it succeeds and adds exactly amount  *)
(* to current_amount, so a Funded campaign keeps accepting donations beyond *)
(* its target.                                                              *)
C13_AddDonationByStatus ==
    [][\A id \in CampaignIds :
          (/\ last'.op = "add_donation"
           /\ last'.ledger = CampaignAddr
           /\ last'.id = id
           /\ Has(campaigns, id))
          => IF campaigns[id].status \in {"Active", "Funded"}
             THEN /\ last'.err = "ok"
                  /\ campaigns'[id].current_amount
                         = campaigns[id].current_amount + last'.amount
                  /\ campaigns'[id].released_amount = campaigns[id].released_amount
                  /\ campaigns'[id].target_amount = campaigns[id].target_amount
                  /\ campaigns'[id].creator = campaigns[id].creator
             ELSE /\ last'.err = "NotActive"
                  /\ campaigns' = campaigns]_vars

\* a campaign that had already reached its target was just credited once more
C13_Witness ==
    /\ last.op = "add_donation"
    /\ last.ledger = CampaignAddr
    /\ last.err = "ok"
    /\ last.amount > 0
    /\ Has(campaigns, last.id)
    /\ campaigns[last.id].status = "Funded"
    /\ campaigns[last.id].target_amount > 0
    /\ campaigns[last.id].current_amount - last.amount
           >= campaigns[last.id].target_amount

(* C14: the donation log round-trips.  get_donations(campaign, donor) is    *)
(* empty before the donor's first donation; every successful donate of the  *)
(* donor appends one record with the submitted amount at the end of that    *)
(* list, and no other step (a failed donate, a donation of another donor,   *)
(* any call on the Campaign Ledger) changes it: after N successful          *)
(* donations it holds exactly N records in submission order.                *)
C14_DonationLogRoundTrip ==
    [][\A id \in CampaignIds : \A donor \in Principals :
          IF /\ last'.op = "donate"
             /\ last'.err = "ok"
             /\ last'.id = id
             /\ last'.caller = donor
          THEN get_donations(donations', id, donor)
                  = Append(get_donations(donations, id, donor),
                           [campaign_id |-> id,
                            donor |-> donor,
                            amount |-> last'.amount,
                            timestamp |-> LedgerTimestamp])
          ELSE get_donations(donations', id, donor)
                  = get_donations(donations, id, donor)]_vars

\* a donor's second donation was just logged after the first, with a donation of
\* another donor in the log as well
C14_Witness ==
    /\ last.op = "donate"
    /\ last.err = "ok"
    /\ Len(get_donations(donations, last.id, last.caller)) = 2
    /\ get_donations(donations, last.id, last.caller)[2].amount = last.amount
    /\ \E other \in Principals \ {last.caller} :
           Len(get_donations(donations, last.id, other)) = 1

\* a donate call naming the Campaign Ledger instance `ledger` and the campaign `id`
\* was just made
DonateStep(ledger, id) ==
    last'.op = "donate" /\ last'.ledger = ledger /\ last'.id = id

\* the Donation Ledger instance is the registered donation authority of the campaign
\* `id` on the Campaign Ledger instance `ledger`
Registered(ledger, id) == ledgers[ledger][id].donation_contract = Some(DonationAddr)

(* C15: donate is all-or-nothing across the two ledgers.  Every donate call *)
(* either succeeds, and then one record was added to the Donation Ledger    *)
(* AND the campaign's current_amount grew by exactly amount, or fails, and  *)
(* then neither ledger changed; no step leaves a record without its credit  *)
(* or a credit without its record.  The campaign is the one of the given id *)
(* on the Campaign Ledger instance the donor named, and no other instance   *)
(* is written.                                                              *)
C15_DonateAllOrNothing ==
    [][\A ledger \in LedgerAddrs : \A id \in CampaignIds :
          DonateStep(ledger, id)
          => \/ /\ last'.err = "ok"
                /\ DonationCount(donations', id) = DonationCount(donations, id) + 1
                /\ get_total_donated(donations', id)
                       = get_total_donated(donations, id) + last'.amount
                /\ Has(ledgers[ledger], id)
                /\ ledgers'[ledger][id].current_amount
                       = ledgers[ledger][id].current_amount + last'.amount
                /\ \A other \in LedgerAddrs \ {ledger} : ledgers'[other] = ledgers[other]
             \/ /\ last'.err # "ok"
                /\ donations' = donations
                /\ ledgers' = ledgers]_vars

\* a donation naming the second Campaign Ledger instance was just logged and credited
\* there, while the first instance holds no campaign of that id
C15_Witness ==
    /\ last.op = "donate"
    /\ last.err = "ok"
    /\ last.ledger = OtherAddr
    /\ ledgers[OtherAddr][last.id].current_amount = last.amount
    /\ ~Has(campaigns, last.id)
    /\ get_total_donated(donations, last.id) = last.amount

(* C16, as stated: donate fails with InvalidAmount when amount <= 0, with   *)
(* CampaignInactive when the campaign's status is not Active or Funded, and *)
(* with Unauthorized when this Donation Ledger is not the campaign's        *)
(* registered donation authority, the conditions taken in the order the     *)
(* claim lists them; nothing is appended and current_amount is unchanged.   *)
C16_Original ==
    [][\A ledger \in LedgerAddrs : \A id \in CampaignIds :
          (DonateStep(ledger, id) /\ Has(ledgers[ledger], id))
          => /\ last'.amount <= 0 => last'.err = "InvalidAmount"
             /\ (/\ last'.amount > 0
                 /\ ledgers[ledger][id].status \notin {"Active", "Funded"})
                => last'.err = "CampaignInactive"
             /\ (/\ last'.amount > 0
                 /\ ledgers[ledger][id].status \in {"Active", "Funded"}
                 /\ ~Registered(ledger, id))
                => last'.err = "Unauthorized"
             /\ last'.err \in {"InvalidAmount", "CampaignInactive", "Unauthorized"}
                => (donations' = donations /\ ledgers' = ledgers)]_vars

(* C16, amended: donate on a stored campaign fails with InvalidAmount when  *)
(* amount <= 0; otherwise with Unauthorized when this Donation Ledger is    *)
(* not the campaign's registered donation authority, whatever the status;   *)
(* otherwise with CampaignInactive when the status is not Active or Funded; *)
(* in each case no record is appended and current_amount is unchanged.  The *)
(* campaign is the one of the given id on the Campaign Ledger instance the  *)
(* donor named.                                                             *)
C16_DonateErrors ==
    [][\A ledger \in LedgerAddrs : \A id \in CampaignIds :
          (DonateStep(ledger, id) /\ Has(ledgers[ledger], id))
          => /\ last'.amount <= 0 => last'.err = "InvalidAmount"
             /\ (last'.amount > 0 /\ ~Registered(ledger, id))
                => last'.err = "Unauthorized"
             /\ (/\ last'.amount > 0
                 /\ Registered(ledger, id)
                 /\ ledgers[ledger][id].status \notin {"Active", "Funded"})
                => last'.err = "CampaignInactive"
             /\ last'.err \in {"InvalidAmount", "CampaignInactive", "Unauthorized"}
                => (donations' = donations /\ ledgers' = ledgers)]_vars

\* a positive donation to a campaign that is neither fundable nor registered with this
\* Donation Ledger was just rejected as Unauthorized
C16_Witness ==
    /\ last.op = "donate"
    /\ last.err = "Unauthorized"
    /\ last.amount > 0
    /\ last.ledger = CampaignAddr
    /\ Has(campaigns, last.id)
    /\ campaigns[last.id].status \notin {"Active", "Funded"}
    /\ campaigns[last.id].donation_contract # Some(DonationAddr)

(* C17: the accumulators are monotonic: in every step, current_amount and   *)
(* released_amount of a stored campaign are at least what they were before  *)
(* the step; neither ever decreases or is reset.  Stated for the steps      *)
(* other than initialize, whose reset of an existing campaign is the case   *)
(* of C8.                                                                   *)
C17_MonotonicAccumulators ==
    [][\A id \in CampaignIds :
          (Has(campaigns, id) /\ ~(last'.op = "initialize" /\ last'.ledger = CampaignAddr))
          => /\ campaigns'[id].current_amount >= campaigns[id].current_amount
             /\ campaigns'[id].released_amount >= campaigns[id].released_amount]_vars

(* C18: once a campaign exists, its creator and its target_amount never     *)
(* change, whatever operation is called by whatever principal, a repeated   *)
(* initialize included.                                                     *)
C18_CreatorAndTargetFixed ==
    [][\A id \in CampaignIds :
          Has(campaigns, id)
          => /\ campaigns'[id].creator = campaigns[id].creator
             /\ campaigns'[id].target_amount = campaigns[id].target_amount]_vars

(* C19: a campaign's VerificationConfig is created once and immutable: once *)
(* stored, no later call, a second configure_campaign by the owner          *)
(* included, changes its owner, verifier or campaign ledger address; and    *)
(* configure_campaign fails with Unauthorized, storing nothing, unless      *)
(* owner is the campaign's recorded creator.                                *)
C19_ConfigImmutable ==
    [][\A id \in CampaignIds :
          /\ Has(configs, id)
             => /\ Has(configs', id)
                /\ configs'[id].owner = configs[id].owner
                /\ configs'[id].verifier = configs[id].verifier
                /\ configs'[id].campaign_contract = configs[id].campaign_contract
          /\ \A ledger \in LedgerAddrs :
                (/\ last'.op = "configure_campaign"
                 /\ last'.ledger = ledger
                 /\ last'.id = id
                 /\ Has(ledgers[ledger], id)
                 /\ last'.caller # ledgers[ledger][id].creator)
                => (last'.err = "Unauthorized" /\ configs' = configs)]_vars

(* C20: activate called by the stored creator succeeds exactly when the     *)
(* campaign's status is Draft, setting the status to Active and changing    *)
(* nothing else; from Active, Funded, Completed or Cancelled it fails with  *)
(* NotDraft and leaves the campaign unchanged.                              *)
C20_ActivateOnlyFromDraft ==
    [][\A id \in CampaignIds :
          (/\ last'.op = "activate"
           /\ last'.ledger = CampaignAddr
           /\ last'.id = id
           /\ Has(campaigns, id)
           /\ last'.caller = campaigns[id].creator)
          => IF campaigns[id].status = "Draft"
             THEN /\ last'.err = "ok"
                  /\ campaigns' = [campaigns EXCEPT ![id].status = "Active"]
             ELSE /\ last'.err = "NotDraft"
                  /\ campaigns' = campaigns]_vars

\* the creator just tried to activate a Cancelled campaign and was refused
C20_Witness ==
    /\ last.op = "activate"
    /\ last.ledger = CampaignAddr
    /\ last.err = "NotDraft"
    /\ Has(campaigns, last.id)
    /\ last.caller = campaigns[last.id].creator
    /\ campaigns[last.id].status = "Cancelled"

\* VerificationContract::get_milestones
get_milestones(ms, id) == IF Has(ms, id) THEN ms[id] ELSE <<>>

(* C21: create_milestone fails with InvalidAmount when amount <= 0, with    *)
(* NotConfigured when the campaign has no VerificationConfig, and with      *)
(* Unauthorized unless the caller is the configured owner, leaving the      *)
(* milestone list unchanged; on success it appends one Pending milestone    *)
(* (no docs, verified_by and completed_at unset) at the end of the list;    *)
(* so every stored milestone has amount > 0.                                *)
C21_CreateMilestone ==
    [][\A id \in CampaignIds :
          /\ (last'.op = "create_milestone" /\ last'.id = id)
             => IF last'.amount <= 0
                THEN last'.err = "InvalidAmount" /\ milestones' = milestones
                ELSE IF ~Has(configs, id)
                THEN last'.err = "NotConfigured" /\ milestones' = milestones
                ELSE IF last'.caller # configs[id].owner
                THEN last'.err = "Unauthorized" /\ milestones' = milestones
                ELSE /\ last'.err = "ok"
                     /\ \E description \in Descriptions :
                          get_milestones(milestones', id)
                            = Append(get_milestones(milestones, id),
                                     [description |-> description,
                                      amount |-> last'.amount,
                                      status |-> "Pending",
                                      verification_docs |-> <<>>,
                                      verified_by |-> None,
                                      completed_at |-> None])
          /\ \A index \in 1..Len(get_milestones(milestones', id)) :
                 get_milestones(milestones', id)[index].amount > 0]_vars

\* the owner just added a second milestone behind one that is no longer Pending
C21_Witness ==
    /\ last.op = "create_milestone"
    /\ last.err = "ok"
    /\ Len(get_milestones(milestones, last.id)) = 2
    /\ get_milestones(milestones, last.id)[1].status # "Pending"
    /\ get_milestones(milestones, last.id)[2].status = "Pending"
    /\ get_milestones(milestones, last.id)[2].amount = last.amount

(* C22: milestones are never deleted and are mutated only by the configured *)
(* verifier: in every step a campaign's milestone list does not shrink, the *)
(* position, amount and description of an existing milestone do not change, *)
(* and its status, verified_by, verification_docs and completed_at change   *)
(* only in a successful verify_milestone or complete_milestone called by    *)
(* the configured verifier on that index; create_milestone and calls on     *)
(* other indices leave it unchanged.                                        *)
C22_MilestonesFrame ==
    [][\A id \in CampaignIds :
          /\ Len(get_milestones(milestones', id)) >= Len(get_milestones(milestones, id))
          /\ \A i \in 1..Len(get_milestones(milestones, id)) :
                LET before == get_milestones(milestones, id)[i]
                    after == get_milestones(milestones', id)[i]
                IN /\ after.amount = before.amount
                   /\ after.description = before.description
                   /\ after # before
                      => /\ last'.op \in {"verify_milestone", "complete_milestone"}
                         /\ last'.err = "ok"
                         /\ last'.id = id
                         /\ last'.index = i - 1
                         /\ Has(configs, id)
                         /\ last'.caller = configs[id].verifier]_vars

\* the verifier just verified the second milestone and the first is still as created
C22_Witness ==
    /\ last.op = "verify_milestone"
    /\ last.err = "ok"
    /\ last.index = 1
    /\ Len(get_milestones(milestones, last.id)) = 2
    /\ get_milestones(milestones, last.id)[1].status = "Pending"
    /\ get_milestones(milestones, last.id)[1].verified_by = None
    /\ get_milestones(milestones, last.id)[2].status = "Verified"
    /\ get_milestones(milestones, last.id)[2].verified_by = Some(last.caller)

\* the Donation Ledger's total for the campaign is the current_amount a Campaign
\* Ledger instance holds for it, and available_funds is that total minus
\* released_amount
LedgersAgree(dons, store, id) ==
    Has(store, id)
    => /\ get_total_donated(dons, id) = store[id].current_amount
       /\ available_funds(store, id).value
              = get_total_donated(dons, id) - store[id].released_amount

(* C23: the two ledgers agree on the donated total.  When a campaign is     *)
(* credited only through donate, get_total_donated(campaign_id) on the      *)
(* Donation Ledger equals the campaign's current_amount on the Campaign     *)
(* Ledger, and available_funds equals that total minus released_amount.     *)
(* Stated for steps: the agreement holds before any call and every call     *)
(* other than a direct add_donation keeps it.                               *)
C23_LedgersAgree ==
    [][\A ledger \in LedgerAddrs, id \in CampaignIds :
          (last'.op # "add_donation" /\ LedgersAgree(donations, ledgers[ledger], id))
          => LedgersAgree(donations', ledgers'[ledger], id)]_vars

(* C24: the status is consistent with the accumulators in every reachable   *)
(* state: a Draft campaign has current_amount = 0 and released_amount = 0;  *)
(* a Funded campaign has current_amount >= target_amount; a Completed       *)
(* campaign has released_amount >= target_amount, hence current_amount >=   *)
(* target_amount.                                                           *)
C24_StatusMatchesAccumulators ==
    \A id \in CampaignIds :
        Has(campaigns, id)
        => /\ campaigns[id].status = "Draft"
              => (campaigns[id].current_amount = 0 /\ campaigns[id].released_amount = 0)
           /\ campaigns[id].status = "Funded"
              => campaigns[id].current_amount >= campaigns[id].target_amount
           /\ campaigns[id].status = "Completed"
              => (/\ campaigns[id].released_amount >= campaigns[id].target_amount
                  /\ campaigns[id].current_amount >= campaigns[id].target_amount)

(* C25: no funds move on a cancelled campaign: once a campaign's status is  *)
(* Cancelled, no add_donation, donate, mark_milestone_completed or          *)
(* complete_milestone call changes its current_amount or released_amount.   *)
C25_CancelledIsFrozen ==
    [][\A id \in CampaignIds :
          (/\ Has(campaigns, id)
           /\ campaigns[id].status = "Cancelled"
           /\ last'.op \in {"add_donation", "donate",
                            "mark_milestone_completed", "complete_milestone"}
           /\ last'.id = id)
          => /\ campaigns'[id].current_amount = campaigns[id].current_amount
             /\ campaigns'[id].released_amount = campaigns[id].released_amount]_vars

====
